---- MODULE Spec2Model ----
(***************************************************************************)
(* A model of the analyzers of backtrader/analyzer_store:                  *)
(*   TradeAnalyzer        (trade_analyzer.py)                              *)
(*   PerformanceAnalyzer  (performance_analyzer.py)                        *)
(* and of StrategyMaster.getPortfolioRealizedVol (strategy_store).         *)
(* Prices, costs and quantities are integers; quotients are kept as        *)
(* reduced fractions <<num, den>> and round(x, 4) as an integer number of  *)
(* ten-thousandths.  Dates (bt.num2date of a float) are integers: the      *)
(* conversion is monotone and only the order of dates is used.             *)
(***************************************************************************)
EXTENDS Integers, Sequences, FiniteSets, TLC

VARIABLES
    open_trades,    \* TradeAnalyzer.open_trades: list of open-leg dicts
    close_trades,   \* TradeAnalyzer.close_trades: list of close-leg dicts
    _trade_id,      \* TradeAnalyzer._trade_id: next leg sequence number
    trades,         \* the engine's Trade object of every trade reference
    position,       \* PerformanceAnalyzer.position: list of <<dt, row>> in insertion order
    value,          \* PerformanceAnalyzer.value: list of <<dt, row>> in insertion order
    broker_value,   \* strategy.stats.broker.value: the portfolio value of every bar so far
    result          \* what the last call returned or raised, and the call it was

vars ==
    <<open_trades, close_trades, _trade_id, trades, position, value, broker_value, result>>

tradeVars == <<open_trades, close_trades, _trade_id>>
perfVars == <<position, value>>

----------------------------------------------------------------------------
(* Bounds of the model *)

MaxEvents == 2      \* legs and timestamps recorded in one run
MaxDirect == 1      \* legs recorded when notify_trade is called directly
MaxHistory == 3     \* bars the broker observer has recorded

(* Input domains *)

Refs == {1, 2}                      \* trade.ref
Fills == {-2, -1, 1, 2}             \* event.size
NetSizes == {-1, 0, 1}              \* status.size of a Trade built by the caller
\* <<event.price, status.price, event.dt>> of an execution: the code copies
\* the date and computes with the prices, never both in one expression
Executions == {<<3, 2, 1>>, <<1, 2, 2>>, <<1, 0, 1>>}
BarLens == {0, 1}                   \* status.barlen
BrokerValues == {0, 10}             \* strategy.broker.getvalue()
Commissions == {1}                  \* event.commission
PortfolioValues == {0, 1, 2}        \* broker.getvalue() as the observer records it
LookBacks == -1..(MaxHistory + 1)   \* look_back_periods
Times == {0, 1, 2}                  \* datas[0].datetime, in half seconds
\* <<size of "A", size of "B", cash>> read by PerformanceAnalyzer.next
Snapshots == {<<0, 0, 0>>, <<1, 0, -2>>, <<1, -1, 5>>}

(* The data feed of a trade reference: reference 1 trades "A", a feed with *)
(* high and low columns; reference 2 trades "B", a CloseOnlyDatafeed.      *)
DataName(ref) == IF ref = 1 THEN "A" ELSE "B"

(* CloseOnlyDatafeed.params: which price columns the feed maps *)
CloseOnlyDatafeed == [high |-> FALSE, low |-> FALSE, close |-> TRUE]
FullDatafeed == [high |-> TRUE, low |-> TRUE, close |-> TRUE]
ColMapping(ticker) == IF ticker = "B" THEN CloseOnlyDatafeed ELSE FullDatafeed

(* The bars of each feed, oldest first *)
Lines(ticker) ==
    IF ticker = "A"
    THEN [high |-> <<3, 5>>, low |-> <<1, 2>>, close |-> <<2, 4>>]
    ELSE [high |-> <<>>, low |-> <<>>, close |-> <<4, 1>>]

DataLen == Len(Lines("A").close)
Bars == 1..DataLen                  \* len(trade.data) at the notification

----------------------------------------------------------------------------
(* Arithmetic helpers *)

Abs(x) == IF x < 0 THEN -x ELSE x

Sign(x) == IF x > 0 THEN 1 ELSE IF x < 0 THEN -1 ELSE 0

RECURSIVE Gcd(_, _)
Gcd(a, b) == IF b = 0 THEN a ELSE Gcd(b, a % b)

(* n / d as a reduced fraction with a positive denominator (d # 0) *)
Div(n, d) ==
    LET g == Gcd(Abs(n), Abs(d))
        s == IF d < 0 THEN -1 ELSE 1
    IN  <<(s * n) \div g, (s * d) \div g>>

(* q - k for a fraction q and an integer k *)
Minus(q, k) == Div(q[1] - k * q[2], q[2])

Neg(q) == <<-q[1], q[2]>>

(* a + b and a * b for fractions *)
QAdd(a, b) == Div(a[1] * b[2] + b[1] * a[2], a[2] * b[2])
QMul(a, b) == Div(a[1] * b[1], a[2] * b[2])

Min(a, b) == IF a < b THEN a ELSE b

(* round(q, 4) in ten-thousandths, ties to even *)
Round4(q) ==
    LET n == q[1] * 10000
        f == n \div q[2]
        r == n - f * q[2]
    IN  IF 2 * r > q[2] THEN f + 1
        ELSE IF 2 * r < q[2] THEN f
        ELSE IF f % 2 = 0 THEN f ELSE f + 1

RECURSIVE SeqMax(_)
SeqMax(s) ==
    IF Len(s) = 1 THEN s[1]
    ELSE LET m == SeqMax(Tail(s)) IN IF s[1] > m THEN s[1] ELSE m

RECURSIVE SeqMin(_)
SeqMin(s) ==
    IF Len(s) = 1 THEN s[1]
    ELSE LET m == SeqMin(Tail(s)) IN IF s[1] < m THEN s[1] ELSE m

----------------------------------------------------------------------------
(* backtrader.trade.Trade, the object handed to notify_trade *)

NewTrade == [size |-> 0, long |-> FALSE]

(* Trade.update(size): the net size moves by the fill; a fill that opens   *)
(* the trade from flat sets its side.                                      *)
TradeUpdate(t, size) ==
    [size |-> t.size + size,
     long |-> IF t.size = 0 THEN t.size + size > 0 ELSE t.long]

(* The fills the engine hands to one Trade: it never takes the trade       *)
(* through zero in one fill (the engine splits such an order).             *)
CanFill(t, size) == t.size * (t.size + size) >= 0

(* The Trade as notify_trade reads it: ref, long, the data feed and the    *)
(* last entry of trade.history (event and status).                         *)
TradeObject(ref, long, esize, eprice, ecomm, edt, ssize, sprice, sbarlen) ==
    [ref |-> ref,
     long |-> long,
     dataname |-> DataName(ref),
     event |-> [size |-> esize, price |-> eprice, commission |-> ecomm, dt |-> edt],
     status |-> [size |-> ssize, price |-> sprice, barlen |-> sbarlen]]

(* LineBuffer.get(ago=0, size): the last `size` values up to the current   *)
(* bar, empty when the line holds fewer.                                   *)
Get(line, cur, size) ==
    IF size > cur \/ cur > Len(line) THEN <<>> ELSE SubSeq(line, cur - size + 1, cur)

----------------------------------------------------------------------------
(* TradeAnalyzer *)

NoCall == [op |-> "__init__"]

(* A variant that takes a fill leaving net size 0 for an opening one *)
ActionOf_ZeroOpens(trd) ==
    IF trd.event.size * trd.status.size >= 0 THEN "open" ELSE "close"

(* A variant that takes every buy for an opening fill and every sell for a *)
(* closing one                                                             *)
ActionOf_BuyOpens(trd) == IF trd.event.size > 0 THEN "open" ELSE "close"

(* action: open iff the fill and the net size after it have the same sign *)
ActionOf(trd) == IF trd.event.size * trd.status.size > 0 THEN "open" ELSE "close"

(* A variant that reads the direction off the side of the fill *)
DirectionOf_FillSide(trade) == IF trade.event.size > 0 THEN "long" ELSE "short"

DirectionOf(trade) == IF trade.long THEN "long" ELSE "short"

ActionDirection(action_, direction_) == action_ \o " " \o direction_

OpenRecord(trade, id) ==
    LET trd == trade
        exe_price == trd.event.price
        exe_qty == trd.event.size
        trd_value == exe_price * exe_qty
    IN  [ref_id |-> trade.ref,
         trade_id |-> id,
         ticker |-> trade.dataname,
         action |-> ActionDirection(ActionOf(trd), DirectionOf(trade)),
         exe_date |-> trd.event.dt,
         exe_price |-> exe_price,
         avg_cost |-> trd.status.price,
         exe_qty |-> exe_qty,
         open_qty |-> trd.status.size,
         trade_value |-> Abs(trd_value),
         commission |-> trd.event.commission]

(* A variant that leaves the pnl of a short as that of a long *)
Pnl_NoNegate(trade) == (trade.event.price - trade.status.price) * Abs(trade.event.size)

Pnl(trade) ==
    LET pnl == (trade.event.price - trade.status.price) * Abs(trade.event.size)
    IN  IF DirectionOf(trade) = "long" THEN pnl ELSE -pnl

(* A variant that counts a trade of no bars as one of one bar *)
PnlPerBar_AtLeastOneBar(pnl, nbars) == IF nbars # 0 THEN Div(pnl, nbars) ELSE Div(pnl, 1)

PnlPerBar(pnl, nbars) == IF nbars # 0 THEN Div(pnl, nbars) ELSE <<0, 1>>

HighCol(ticker) == IF ~ColMapping(ticker).high THEN "close" ELSE "high"
LowCol(ticker) == IF ~ColMapping(ticker).low THEN "close" ELSE "low"

(* A variant that leaves the excursions of a short as those of a long *)
Mfp_NoSwap(direction_, highest, lowest) == highest

Mfp(direction_, highest, lowest) == IF direction_ = "long" THEN highest ELSE Neg(lowest)
(* A variant that swaps the excursions of a short without negating *)
Mfl_NotNegated(direction_, highest, lowest) ==
    IF direction_ = "long" THEN lowest ELSE highest

Mfl(direction_, highest, lowest) == IF direction_ = "long" THEN lowest ELSE Neg(highest)

CloseRecord(trade, id, brokervalue, cur) ==
    LET trd == trade
        nbars == trd.status.barlen
        pnl == Pnl(trade)
        high == Get(Lines(trade.dataname)[HighCol(trade.dataname)], cur, nbars + 1)
        low == Get(Lines(trade.dataname)[LowCol(trade.dataname)], cur, nbars + 1)
        highest_price_change == Minus(Div(SeqMax(high), trd.status.price), 1)
        lowest_price_change == Minus(Div(SeqMin(low), trd.status.price), 1)
        mfp == Mfp(DirectionOf(trade), highest_price_change, lowest_price_change)
        mfl == Mfl(DirectionOf(trade), highest_price_change, lowest_price_change)
    IN  OpenRecord(trade, id) @@
        ("chng%" :> Minus(Div(trd.event.price, trd.status.price), 1)) @@
        ("pnl" :> pnl) @@
        ("pnl%" :> Div(pnl, brokervalue)) @@
        ("nbars" :> nbars) @@
        ("pnl/bar" :> Round4(PnlPerBar(pnl, nbars))) @@
        ("max_floatin_profit" :> Round4(mfp)) @@
        ("max_floating_loss" :> Round4(mfl))

(* The exception the close branch raises before it appends, "none" if it   *)
(* raises none, in the order the statements run.                           *)
CloseException(trade, brokervalue, cur) ==
    LET nbars == trade.status.barlen
        high == Get(Lines(trade.dataname)[HighCol(trade.dataname)], cur, nbars + 1)
        low == Get(Lines(trade.dataname)[LowCol(trade.dataname)], cur, nbars + 1)
    IN  IF brokervalue = 0 THEN "division by zero"
        ELSE IF high = <<>> \/ low = <<>> THEN "max() arg is an empty sequence"
        ELSE IF trade.status.price = 0 THEN "division by zero"
        ELSE "none"

(* A variant that adds 1 to _trade_id before it builds the record *)
HandleTrade_IdFirst(st, trade, brokervalue, cur) ==
    IF ActionOf(trade) = "open"
    THEN [exc |-> "none",
          open_trades |-> Append(st.open_trades, OpenRecord(trade, st._trade_id + 1)),
          close_trades |-> st.close_trades,
          _trade_id |-> st._trade_id + 1]
    ELSE IF CloseException(trade, brokervalue, cur) # "none"
    THEN [exc |-> CloseException(trade, brokervalue, cur),
          open_trades |-> st.open_trades,
          close_trades |-> st.close_trades,
          _trade_id |-> st._trade_id]
    ELSE [exc |-> "none",
          open_trades |-> st.open_trades,
          close_trades |-> Append(st.close_trades,
                                  CloseRecord(trade, st._trade_id + 1, brokervalue, cur)),
          _trade_id |-> st._trade_id + 1]

(* A variant that advances _trade_id in the close branch only *)
HandleTrade_OpenNotCounted(st, trade, brokervalue, cur) ==
    IF ActionOf(trade) = "open"
    THEN [exc |-> "none",
          open_trades |-> Append(st.open_trades, OpenRecord(trade, st._trade_id)),
          close_trades |-> st.close_trades,
          _trade_id |-> st._trade_id]
    ELSE IF CloseException(trade, brokervalue, cur) # "none"
    THEN [exc |-> CloseException(trade, brokervalue, cur),
          open_trades |-> st.open_trades,
          close_trades |-> st.close_trades,
          _trade_id |-> st._trade_id]
    ELSE [exc |-> "none",
          open_trades |-> st.open_trades,
          close_trades |-> Append(st.close_trades,
                                  CloseRecord(trade, st._trade_id, brokervalue, cur)),
          _trade_id |-> st._trade_id + 1]

(* A variant that counts the leg before the close branch can raise *)
HandleTrade_CountsFailure(st, trade, brokervalue, cur) ==
    IF ActionOf(trade) = "open"
    THEN [exc |-> "none",
          open_trades |-> Append(st.open_trades, OpenRecord(trade, st._trade_id)),
          close_trades |-> st.close_trades,
          _trade_id |-> st._trade_id + 1]
    ELSE IF CloseException(trade, brokervalue, cur) # "none"
    THEN [exc |-> CloseException(trade, brokervalue, cur),
          open_trades |-> st.open_trades,
          close_trades |-> st.close_trades,
          _trade_id |-> st._trade_id + 1]
    ELSE [exc |-> "none",
          open_trades |-> st.open_trades,
          close_trades |-> Append(st.close_trades,
                                  CloseRecord(trade, st._trade_id, brokervalue, cur)),
          _trade_id |-> st._trade_id + 1]

(* _handle_trade on the analyzer state st: the state it leaves and the     *)
(* exception it raised.                                                    *)
HandleTrade(st, trade, brokervalue, cur) ==
    IF ActionOf(trade) = "open"
    THEN [exc |-> "none",
          open_trades |-> Append(st.open_trades, OpenRecord(trade, st._trade_id)),
          close_trades |-> st.close_trades,
          _trade_id |-> st._trade_id + 1]
    ELSE IF CloseException(trade, brokervalue, cur) # "none"
    THEN [exc |-> CloseException(trade, brokervalue, cur),
          open_trades |-> st.open_trades,
          close_trades |-> st.close_trades,
          _trade_id |-> st._trade_id]
    ELSE [exc |-> "none",
          open_trades |-> st.open_trades,
          close_trades |-> Append(st.close_trades,
                                  CloseRecord(trade, st._trade_id, brokervalue, cur)),
          _trade_id |-> st._trade_id + 1]

(* notify_trade: _handle_trade, any exception re-raised as a ValueError    *)
(* whose message names trade.ref (the text of the exception, which the     *)
(* message carries too, is left out).                                      *)
(* A variant that swallows the exception *)
NotifyResult_Absorb(trade, exc) ==
    [op |-> "notify_trade", ref |-> trade.ref, raised |-> "none"]

NotifyResult(trade, exc) ==
    IF exc = "none"
    THEN [op |-> "notify_trade", ref |-> trade.ref, raised |-> "none"]
    ELSE [op |-> "notify_trade", ref |-> trade.ref, raised |-> "ValueError",
          message |-> <<"Error processing trade", trade.ref>>]

notify_trade(trade, brokervalue, cur) ==
    LET st == [open_trades |-> open_trades, close_trades |-> close_trades,
               _trade_id |-> _trade_id]
        r == HandleTrade(st, trade, brokervalue, cur)
    IN  /\ open_trades' = r.open_trades
        /\ close_trades' = r.close_trades
        /\ _trade_id' = r._trade_id
        /\ result' = NotifyResult(trade, r.exc)

----------------------------------------------------------------------------
(* TradeAnalyzer.get_analysis *)

(* A variant with the columns of the open legs only *)
EmptyColumns_Common ==
    <<"ref_id", "trade_id", "ticker", "action", "exe_date", "exe_price", "avg_cost",
      "exe_qty", "open_qty", "trade_value", "commission">>

(* The columns of the table of an analyzer without records *)
EmptyColumns ==
    <<"ref_id", "trade_id", "ticker", "action", "exe_date", "exe_price", "avg_cost",
      "exe_qty", "open_qty", "trade_value", "commission", "chng%", "pnl", "pnl%",
      "nbars", "pnl/bar", "max_floatin_profit", "max_floating_loss">>

(* The keys of an open-leg dict and of a close-leg dict, in the order written *)
OpenColumns ==
    <<"ref_id", "trade_id", "ticker", "action", "exe_date", "exe_price", "avg_cost",
      "exe_qty", "open_qty", "trade_value", "commission">>

CloseColumns ==
    <<"ref_id", "trade_id", "ticker", "action", "avg_cost", "exe_date", "exe_price",
      "exe_qty", "open_qty", "trade_value", "commission", "chng%", "pnl", "pnl%",
      "nbars", "pnl/bar", "max_floatin_profit", "max_floating_loss">>

CloseOnlyColumns ==
    <<"chng%", "pnl", "pnl%", "nbars", "pnl/bar", "max_floatin_profit",
      "max_floating_loss">>

(* pd.concat([open, close], axis=0): the rows of open then those of close; *)
(* a column a row lacks is NaN in it, which a row shows by lacking the key *)
ConcatColumns(open, close) ==
    IF open = <<>> THEN (IF close = <<>> THEN <<>> ELSE CloseColumns)
    ELSE IF close = <<>> THEN OpenColumns
    ELSE OpenColumns \o CloseOnlyColumns

(* The order of ticker names as strings *)
TickerRank(ticker) == IF ticker = "A" THEN 1 ELSE 2

(* A variant that sorts in descending order *)
KeyLess_Descending(a, b) ==
    \/ b["exe_date"] < a["exe_date"]
    \/ /\ b["exe_date"] = a["exe_date"]
       /\ \/ b["trade_id"] < a["trade_id"]
          \/ /\ b["trade_id"] = a["trade_id"]
             /\ TickerRank(b["ticker"]) < TickerRank(a["ticker"])

(* by=["exe_date", "trade_id", "ticker"]: row a sorts strictly before row b *)
KeyLess(a, b) ==
    \/ a["exe_date"] < b["exe_date"]
    \/ /\ a["exe_date"] = b["exe_date"]
       /\ \/ a["trade_id"] < b["trade_id"]
          \/ /\ a["trade_id"] = b["trade_id"]
             /\ TickerRank(a["ticker"]) < TickerRank(b["ticker"])

(* Insert row r into the sorted rows s after every row not greater than it *)
RECURSIVE Insert(_, _)
Insert(s, r) ==
    IF s = <<>> THEN <<r>>
    ELSE IF KeyLess(r, s[1]) THEN <<r>> \o s
    ELSE <<s[1]>> \o Insert(Tail(s), r)

(* A variant that leaves the rows as concatenated *)
SortValues_None(rows) == rows

(* sort_values(by=..., ignore_index=True): a stable ascending sort *)
RECURSIVE SortValues(_)
SortValues(rows) ==
    IF rows = <<>> THEN <<>>
    ELSE Insert(SortValues(SubSeq(rows, 1, Len(rows) - 1)), rows[Len(rows)])

GetAnalysisTable(open, close) ==
    IF open \o close = <<>>
    THEN [columns |-> EmptyColumns, rows |-> <<>>]
    ELSE [columns |-> ConcatColumns(open, close), rows |-> SortValues(open \o close)]

(* A variant that hands the records over and empties the lists *)
get_analysis_Drain ==
    /\ result' = [op |-> "get_analysis", raised |-> "none",
                  table |-> GetAnalysisTable(open_trades, close_trades)]
    /\ open_trades' = <<>>
    /\ close_trades' = <<>>
    /\ _trade_id' = _trade_id

(* A variant that sorts the two lists in place *)
get_analysis_SortsInPlace ==
    /\ result' = [op |-> "get_analysis", raised |-> "none",
                  table |-> GetAnalysisTable(open_trades, close_trades)]
    /\ open_trades' = SortValues(open_trades)
    /\ close_trades' = SortValues(close_trades)
    /\ _trade_id' = _trade_id

get_analysis ==
    /\ result' = [op |-> "get_analysis", raised |-> "none",
                  table |-> GetAnalysisTable(open_trades, close_trades)]
    /\ UNCHANGED <<open_trades, close_trades, _trade_id>>

----------------------------------------------------------------------------
(* PerformanceAnalyzer *)

(* strategy.datas, in order *)
Datas == <<"A", "B">>

(* strftime("%Y-%m-%d %H:%M:%S"): the instant cut to whole seconds *)
StrfTime(t) == t \div 2

RECURSIVE HasKey(_, _)
HasKey(d, k) == d # <<>> /\ (d[1][1] = k \/ HasKey(Tail(d), k))

(* A variant that adds the entry last whether or not the key is there *)
DictUpdate_Append(d, k, row) == Append(d, <<k, row>>)

(* dict.update({k: row}): the entry of k replaced where it stands, or      *)
(* added last                                                              *)
DictUpdate(d, k, row) ==
    IF HasKey(d, k)
    THEN [i \in 1..Len(d) |-> IF d[i][1] = k THEN <<k, row>> ELSE d[i]]
    ELSE Append(d, <<k, row>>)

PositionRow(sizes, cash) ==
    [A |-> sizes[1], B |-> sizes[2], MNYFUND |-> cash]

(* len(data) when the clock reads t: one bar a second *)
BarAt(t) == StrfTime(t) + 1

ValueRow(sizes, cur, cash) ==
    [A |-> sizes[1] * Lines("A").close[cur],
     B |-> sizes[2] * Lines("B").close[cur],
     MNYFUND |-> cash]

next(t, sizes, cash) ==
    LET dt == StrfTime(t)
    IN  /\ position' = DictUpdate(position, dt, PositionRow(sizes, cash))
        /\ value' = DictUpdate(value, dt, ValueRow(sizes, BarAt(t), cash))

(* Float quotients of the tables: <<n, d>> reduced, <<1, 0>> and <<-1, 0>> *)
(* the infinities, <<0, 0>> NaN                                            *)
NaN == <<0, 0>>

FloatDiv(n, d) == IF d = 0 THEN <<Sign(n), 0>> ELSE Div(n, d)

FillNa0(q) == IF q = NaN THEN <<0, 1>> ELSE q

(* value.sum(axis=1) of one row *)
RowSum(row) == row.A + row.B + row.MNYFUND

(* wgt.div(value.sum(axis=1), axis=0).fillna(0) of one row *)
WgtRow(row) ==
    [A |-> FillNa0(FloatDiv(row.A, RowSum(row))),
     B |-> FillNa0(FloatDiv(row.B, RowSum(row))),
     MNYFUND |-> FillNa0(FloatDiv(row.MNYFUND, RowSum(row)))]

(* total_value.pct_change(): total / previous total - 1 *)
PctChange(prev, cur) ==
    IF prev = 0 THEN <<Sign(cur), 0>> ELSE Minus(Div(cur, prev), 1)

(* A variant that takes the value before the first row for 0 *)
PortfolioRow_FirstFromZero(val, i) ==
    LET total == RowSum(val[i][2])
        prev == IF i = 1 THEN 0 ELSE RowSum(val[i - 1][2])
    IN  [total_value |-> total,
         daily_pnl |-> total - prev,
         daily_return |-> FillNa0(PctChange(prev, total))]

PortfolioRow(val, i) ==
    LET total == RowSum(val[i][2])
    IN  [total_value |-> total,
         daily_pnl |-> IF i = 1 THEN 0 ELSE total - RowSum(val[i - 1][2]),
         daily_return |-> IF i = 1 THEN <<0, 1>>
                          ELSE FillNa0(PctChange(RowSum(val[i - 1][2]), total))]

PerfAnalysis(pos, val) ==
    [position_qty |-> pos,
     position_value |-> val,
     position_wgt |-> [i \in 1..Len(val) |-> <<val[i][1], WgtRow(val[i][2])>>],
     performance |-> [i \in 1..Len(val) |-> <<val[i][1], PortfolioRow(val, i)>>]]

perf_get_analysis ==
    /\ result' = [op |-> "PerformanceAnalyzer.get_analysis", raised |-> "none",
                  tables |-> PerfAnalysis(position, value)]
    /\ UNCHANGED <<position, value>>

----------------------------------------------------------------------------
(* StrategyMaster.getPortfolioRealizedVol *)

(* total / np.roll(total, 1) - 1 where the value before is not 0, NaN      *)
(* elsewhere, the first return reset to 0                                  *)
Rets(total) ==
    [i \in 1..Len(total) |->
        IF i = 1 THEN <<0, 1>>
        ELSE IF total[i - 1] = 0 THEN NaN
        ELSE Minus(Div(total[i], total[i - 1]), 1)]

(* np.sum(rets**2, where=~np.isnan(rets)) *)
RECURSIVE SumSquares(_)
SumSquares(rets) ==
    IF rets = <<>> THEN <<0, 1>>
    ELSE IF rets[1] = NaN THEN SumSquares(Tail(rets))
    ELSE QAdd(QMul(rets[1], rets[1]), SumSquares(Tail(rets)))

(* sum(~np.isnan(rets)) *)
CountNumbers(rets) == Cardinality({i \in 1..Len(rets) : rets[i] # NaN})

(* The float 0.0 and the float np.sqrt(q); 0.0 is the square root of 0 *)
ZeroFloat == [sqrt_of |-> <<0, 1>>]
Sqrt(q) == [sqrt_of |-> q]

(* The annualized volatility of the returns *)
Volatility(rets) ==
    IF \A i \in 1..Len(rets) : rets[i] = NaN THEN ZeroFloat
    ELSE LET s == SumSquares(rets)
         IN  Sqrt(Div(s[1] * 252, s[2] * CountNumbers(rets)))

(* A variant that looks for the empty history before the zero window *)
RealizedVol_EmptyFirst(line, look_back_periods) ==
    LET n_ == Min(look_back_periods, Len(line))
        total == Get(line, Len(line), n_)
    IN  IF Len(total) = 0
        THEN [raised |-> "ValueError", warning |-> FALSE]
        ELSE IF n_ = 0
        THEN [raised |-> "none", returned |-> ZeroFloat, warning |-> FALSE]
        ELSE [raised |-> "none", returned |-> Volatility(Rets(total)),
              warning |-> n_ < look_back_periods]

(* getPortfolioRealizedVol over the line of portfolio values: what it      *)
(* returns or raises and whether it logs the warning.  The values are kept *)
(* exact where the code holds them as float32.                             *)
RealizedVol(line, look_back_periods) ==
    LET n_ == Min(look_back_periods, Len(line))
        total == Get(line, Len(line), n_)
    IN  IF n_ = 0
        THEN [raised |-> "none", returned |-> ZeroFloat, warning |-> FALSE]
        ELSE IF Len(total) = 0
        THEN [raised |-> "ValueError", warning |-> FALSE]
        ELSE [raised |-> "none", returned |-> Volatility(Rets(total)),
              warning |-> n_ < look_back_periods]

----------------------------------------------------------------------------
(* The run *)

Init ==
    /\ open_trades = <<>>
    /\ close_trades = <<>>
    /\ _trade_id = 0
    /\ trades = [r \in Refs |-> NewTrade]
    /\ position = <<>>
    /\ value = <<>>
    /\ broker_value = <<>>
    /\ result = NoCall

(* The engine applies a fill to the Trade of a reference and notifies the  *)
(* analyzer of it.                                                         *)
NotifyTrade ==
    \E ref \in Refs, size \in Fills :
        /\ _trade_id + Len(position) < MaxEvents
        /\ CanFill(trades[ref], size)
        /\ trades' = [trades EXCEPT ![ref] = TradeUpdate(trades[ref], size)]
        /\ \E exe \in Executions, comm \in Commissions :
            LET trade(barlen) ==
                    TradeObject(ref, trades'[ref].long, size, exe[1], comm, exe[3],
                                trades'[ref].size, exe[2], barlen)
            IN  IF ActionOf(trade(0)) = "open"
                THEN notify_trade(trade(0), 0, 1)
                ELSE \E barlen \in BarLens, brokervalue \in BrokerValues, cur \in Bars :
                        notify_trade(trade(barlen), brokervalue, cur)
        /\ UNCHANGED <<perfVars, broker_value>>

GetAnalysis ==
    /\ get_analysis
    /\ UNCHANGED <<trades, position, value, broker_value>>

(* The engine steps the analyzers at a bar *)
PerfNext ==
    \E t \in Times :
        /\ HasKey(position, StrfTime(t)) \/ _trade_id + Len(position) < MaxEvents
        /\ \E snap \in Snapshots : next(t, <<snap[1], snap[2]>>, snap[3])
        /\ result' = [op |-> "next", raised |-> "none", dt |-> StrfTime(t)]
        /\ UNCHANGED <<open_trades, close_trades, _trade_id, trades, broker_value>>

PerfGetAnalysis ==
    /\ perf_get_analysis
    /\ UNCHANGED <<open_trades, close_trades, _trade_id, trades, broker_value>>

(* A run seen by the TradeAnalyzer *)
Next ==
    \/ NotifyTrade
    \/ GetAnalysis

Spec == Init /\ [][Next]_vars

(* A run seen by both analyzers *)
NextRun ==
    \/ NotifyTrade
    \/ GetAnalysis
    \/ PerfNext
    \/ PerfGetAnalysis

SpecRun == Init /\ [][NextRun]_vars

(* The broker observer records the portfolio value of a bar *)
ObserverNext ==
    \E v \in PortfolioValues :
        /\ Len(broker_value) < MaxHistory
        /\ broker_value' = Append(broker_value, v)
        /\ result' = [op |-> "Observer.next", raised |-> "none"]
        /\ UNCHANGED <<open_trades, close_trades, _trade_id, trades, position, value>>

(* The strategy asks for the realized volatility over a look-back window *)
GetPortfolioRealizedVol ==
    \E look_back_periods \in LookBacks :
        /\ result' = [op |-> "getPortfolioRealizedVol",
                      look_back_periods |-> look_back_periods,
                      out |-> RealizedVol(broker_value, look_back_periods)]
        /\ UNCHANGED <<open_trades, close_trades, _trade_id, trades, position, value,
                       broker_value>>

(* A run seen by the strategy's volatility query *)
NextVol ==
    \/ ObserverNext
    \/ GetPortfolioRealizedVol

SpecVol == Init /\ [][NextVol]_vars

(* notify_trade called directly with any Trade object, whatever its       *)
(* fields, as a caller other than the engine may do.                       *)
NotifyTradeAny ==
    \E ref \in Refs, long \in BOOLEAN, size \in Fills, ssize \in NetSizes :
        /\ _trade_id < MaxDirect
        /\ \E exe \in Executions, comm \in Commissions,
              barlen \in BarLens, brokervalue \in BrokerValues, cur \in Bars :
                notify_trade(TradeObject(ref, long, size, exe[1], comm, exe[3],
                                         ssize, exe[2], barlen),
                             brokervalue, cur)
        /\ UNCHANGED <<trades, position, value, broker_value>>

NextDirect ==
    \/ NotifyTradeAny
    \/ GetAnalysis

SpecDirect == Init /\ [][NextDirect]_vars

----------------------------------------------------------------------------
(* Properties *)

Range(s) == {s[i] : i \in 1..Len(s)}

Legs == Range(open_trades) \cup Range(close_trades)

SameSign(a, b) == (a > 0 /\ b > 0) \/ (a < 0 /\ b < 0)

IsLong(r) == r.action \in {"open long", "close long"}
IsShort(r) == r.action \in {"open short", "close short"}
IsOpen(r) == r.action \in {"open long", "open short"}
IsClose(r) == r.action \in {"close long", "close short"}

(* C1: a leg is recorded as an open leg (in open_trades, labelled "open")  *)
(* iff its fill quantity and the net size after the fill are both nonzero  *)
(* and of the same sign; every other leg, a leg that leaves net size 0     *)
(* among them, is recorded as a close leg.                                 *)
C1_OpenIffSameSign ==
    /\ \A r \in Range(open_trades) : SameSign(r.exe_qty, r.open_qty) /\ IsOpen(r)
    /\ \A r \in Range(close_trades) : ~SameSign(r.exe_qty, r.open_qty) /\ IsClose(r)

C1_Witness ==
    /\ \E r \in Range(open_trades) : r.open_qty # 0
    /\ \E r \in Range(close_trades) : r.open_qty = 0 /\ r.exe_qty # 0

(* The legs of the reference of r recorded before r that left a position *)
EarlierNonzero(r) ==
    {e \in Legs : e.ref_id = r.ref_id /\ e.trade_id < r.trade_id /\ e.open_qty # 0}

(* C2: a close fill that leaves a reference flat when no earlier leg of    *)
(* the reference left a nonzero position is not recorded as a close leg    *)
(* of either direction (the call raises instead).                          *)
C2_NoDefaultDirection ==
    \A r \in Range(close_trades) : r.open_qty = 0 => EarlierNonzero(r) # {}

(* C3: the pnl of a close leg is (exe_price - avg_cost) * |exe_qty| when   *)
(* it closes a long and the negation of it when it closes a short.         *)
C3_PnlByDirection ==
    \A r \in Range(close_trades) :
        /\ IsLong(r) => r.pnl = (r.exe_price - r.avg_cost) * Abs(r.exe_qty)
        /\ IsShort(r) => r.pnl = -((r.exe_price - r.avg_cost) * Abs(r.exe_qty))
        /\ IsLong(r) \/ IsShort(r)

C3_Witness ==
    \E r \in Range(close_trades) :
        IsShort(r) /\ r.exe_price > r.avg_cost /\ r.pnl = -2 /\ Abs(r.exe_qty) = 2

(* The most recent leg among a nonempty set of legs *)
Latest(S) == CHOOSE e \in S : \A f \in S : f.trade_id <= e.trade_id

Processed == result'.op = "notify_trade" /\ result'.raised = "none"

(* A step that is a notify_trade call raising *)
Failed == result'.op = "notify_trade" /\ result'.raised # "none"

(* The step appends record r to exactly one of the two lists *)
AppendsOne(r) ==
    \/ open_trades' = Append(open_trades, r) /\ close_trades' = close_trades
    \/ close_trades' = Append(close_trades, r) /\ open_trades' = open_trades

(* C5: a notification processed without error appends exactly one record,  *)
(* to one of the two lists, carrying the sequence number held before the   *)
(* step, and adds 1 to _trade_id.                                          *)
C5_OneLegPerNotification ==
    [][Processed =>
        /\ _trade_id' = _trade_id + 1
        /\ \E r \in Range(open_trades') \cup Range(close_trades') :
            r.trade_id = _trade_id /\ AppendsOne(r)]_vars

C5_Witness ==
    /\ _trade_id = 2
    /\ \E r \in Range(close_trades) : r.trade_id = 1
    /\ \E r \in Range(open_trades) : r.trade_id = 0

(* How many rows of the sequence s equal r *)
RECURSIVE Count(_, _)
Count(s, r) ==
    IF s = <<>> THEN 0 ELSE (IF s[1] = r THEN 1 ELSE 0) + Count(Tail(s), r)

(* Row a does not sort after row b by (exe_date, trade_id, ticker) *)
KeyLeq(a, b) ==
    \/ a.exe_date < b.exe_date
    \/ a.exe_date = b.exe_date /\ a.trade_id < b.trade_id
    \/ a.exe_date = b.exe_date /\ a.trade_id = b.trade_id /\ a.ticker = b.ticker
    \/ a.exe_date = b.exe_date /\ a.trade_id = b.trade_id /\ a.ticker = "A" /\ b.ticker = "B"

(* C6: the table get_analysis returns holds every recorded leg once, open  *)
(* and close together, in ascending order of (exe_date, trade_id, ticker). *)
C6_SortedAllLegs ==
    result.op = "get_analysis" =>
        LET rows == result.table.rows
        IN  /\ Len(rows) = Len(open_trades) + Len(close_trades)
            /\ \A r \in Legs : Count(rows, r) = Count(open_trades \o close_trades, r)
            /\ \A i \in 1..(Len(rows) - 1) : KeyLeq(rows[i], rows[i + 1])

C6_Witness ==
    /\ result.op = "get_analysis"
    /\ Len(result.table.rows) = 2
    /\ open_trades # <<>> /\ close_trades # <<>>
    /\ result.table.rows # open_trades \o close_trades

(* C7: get_analysis on an analyzer that recorded no leg does not raise and *)
(* returns no rows under exactly the fixed columns.                        *)
C7_EmptyTable ==
    (result.op = "get_analysis" /\ open_trades = <<>> /\ close_trades = <<>>) =>
        /\ result.raised = "none"
        /\ result.table.rows = <<>>
        /\ Len(result.table.columns) = 18
        /\ Range(result.table.columns) =
            {"ref_id", "trade_id", "ticker", "action", "exe_date", "exe_price",
             "avg_cost", "exe_qty", "open_qty", "trade_value", "commission", "chng%",
             "pnl", "pnl%", "nbars", "pnl/bar", "max_floatin_profit",
             "max_floating_loss"}

C7_Witness ==
    result.op = "get_analysis" /\ open_trades = <<>> /\ close_trades = <<>>

(* C8: a notification that fails leaves both lists and _trade_id as they   *)
(* were.                                                                   *)
C8_FailureLeavesLedger ==
    [][Failed => UNCHANGED <<open_trades, close_trades, _trade_id>>]_vars

C8_Witness ==
    /\ result.op = "notify_trade" /\ result.raised # "none"
    /\ _trade_id = 1 /\ Len(open_trades) = 1 /\ close_trades = <<>>

(* C9: a notification either records its leg or raises an error that      *)
(* names the trade reference of the call; when it raises, every leg        *)
(* recorded before is still recorded.                                      *)
C9_NeverAbsorbed ==
    [][result'.op = "notify_trade" =>
        \/ /\ result'.raised = "none"
           /\ Len(open_trades') + Len(close_trades')
                = Len(open_trades) + Len(close_trades) + 1
        \/ /\ result'.raised = "ValueError"
           /\ result'.message[2] = result'.ref
           /\ open_trades' = open_trades
           /\ close_trades' = close_trades]_vars

C9_Witness ==
    /\ result.op = "notify_trade" /\ result.raised = "ValueError"
    /\ result.message[2] = 2
    /\ \E r \in Range(open_trades) : r.ref_id = 2

(* C10: get_analysis of either analyzer changes neither the two lists, nor *)
(* _trade_id, nor the position and value stores, and called again with no  *)
(* event in between returns the same tables.                               *)
C10_GetAnalysisIdempotent ==
    [][result'.op \in {"get_analysis", "PerformanceAnalyzer.get_analysis"} =>
        /\ UNCHANGED <<open_trades, close_trades, _trade_id, position, value>>
        /\ result.op = result'.op => result' = result]_vars

C10_Witness ==
    /\ result.op = "get_analysis"
    /\ Len(result.table.rows) = 1
    /\ Len(position) = 1

(* s is the beginning of t *)
IsPrefix(s, t) == Len(s) <= Len(t) /\ SubSeq(t, 1, Len(s)) = s

(* C11: the ledger is append-only: whatever a notify_trade or get_analysis *)
(* call does, each list afterwards begins with the list as it was, so      *)
(* every record stays, unchanged and in its place.                         *)
C11_AppendOnly ==
    [][IsPrefix(open_trades, open_trades') /\ IsPrefix(close_trades, close_trades')]_vars

C11_Witness ==
    /\ result.op = "get_analysis"
    /\ Len(open_trades) = 2
    /\ open_trades[1].exe_date > open_trades[2].exe_date

(* Some leg of the reference has been recorded: the reference held a       *)
(* position before                                                         *)
HadLeg(ref) == \E e \in Legs : e.ref_id = ref

FloatAdd(a, b) ==
    IF a = NaN \/ b = NaN THEN NaN
    ELSE IF a[2] = 0 /\ b[2] = 0 THEN (IF a = b THEN a ELSE NaN)
    ELSE IF a[2] = 0 THEN a
    ELSE IF b[2] = 0 THEN b
    ELSE Div(a[1] * b[2] + b[1] * a[2], a[2] * b[2])

(* C13: in the position_wgt table PerformanceAnalyzer.get_analysis returns *)
(* the weights of a row sum to 1 when the total value of the row is not 0, *)
(* and each weight of the row is 0 when the total is 0, also when nonzero  *)
(* values and cash cancel.                                                 *)
C13_WeightsSum ==
    result.op = "PerformanceAnalyzer.get_analysis" =>
        \A i \in 1..Len(result.tables.position_wgt) :
            LET row == result.tables.position_value[i][2]
                w == result.tables.position_wgt[i][2]
            IN  /\ RowSum(row) # 0 =>
                    FloatAdd(FloatAdd(w.A, w.B), w.MNYFUND) = <<1, 1>>
                /\ RowSum(row) = 0 =>
                    w.A = <<0, 1>> /\ w.B = <<0, 1>> /\ w.MNYFUND = <<0, 1>>

(* C14: in the performance table the total_value of a row is the sum of    *)
(* the position values and cash of the row; daily_pnl and daily_return are *)
(* 0 in the first row; daily_pnl of a later row is its total_value less    *)
(* the total_value of the row before.                                      *)
C14_Performance ==
    result.op = "PerformanceAnalyzer.get_analysis" =>
        LET perf == result.tables.performance
            val == result.tables.position_value
        IN  /\ Len(perf) = Len(val)
            /\ \A i \in 1..Len(perf) :
                /\ perf[i][2].total_value = val[i][2].A + val[i][2].B + val[i][2].MNYFUND
                /\ i = 1 => perf[i][2].daily_pnl = 0 /\ perf[i][2].daily_return = <<0, 1>>
                /\ i > 1 => perf[i][2].daily_pnl =
                                perf[i][2].total_value - perf[i - 1][2].total_value

C14_Witness ==
    /\ result.op = "PerformanceAnalyzer.get_analysis"
    /\ Len(result.tables.performance) = 2
    /\ result.tables.performance[1][2].total_value # 0
    /\ result.tables.position_value[1][2].A # 0
    /\ result.tables.performance[2][2].daily_pnl # 0

(* The keys of a store, and the rows it holds under key k *)
Keys(d) == {d[i][1] : i \in 1..Len(d)}
RowsOf(d, k) == {d[i][2] : i \in {j \in 1..Len(d) : d[j][1] = k}}

(* No key stands twice in the store *)
OneEntryPerKey(d) == \A i, j \in 1..Len(d) : d[i][1] = d[j][1] => i = j

(* Every entry of d under a key other than k stands unchanged in e *)
OthersKept(d, e, k) ==
    /\ Len(e) >= Len(d)
    /\ \A i \in 1..Len(d) : d[i][1] # k => e[i] = d[i]

C16_ShortHistoryRaises ==
    (/\ result.op = "getPortfolioRealizedVol"
     /\ result.look_back_periods > Len(broker_value)) =>
        result.out.raised # "none"

(* C17: getPortfolioRealizedVol with look-back 0 returns 0.0 and raises    *)
(* nothing, whatever the history holds and also when it is empty.          *)
C17_ZeroLookBack ==
    (result.op = "getPortfolioRealizedVol" /\ result.look_back_periods = 0) =>
        /\ result.out.raised = "none"
        /\ result.out.returned = ZeroFloat

C17_Witness ==
    /\ result.op = "getPortfolioRealizedVol"
    /\ result.look_back_periods = 0
    /\ broker_value = <<>>
    /\ result.out.raised = "none"

(* C18: the pnl per bar of a close leg is its pnl divided by its bar       *)
(* length when the bar length is above 0, recorded to 4 decimals, and 0    *)
(* when the bar length is 0; such a leg is recorded, not failed on a       *)
(* division by zero.                                                       *)
C18_PnlPerBar ==
    \A r \in Range(close_trades) :
        /\ r["nbars"] > 0 => r["pnl/bar"] = Round4(Div(r["pnl"], r["nbars"]))
        /\ r["nbars"] = 0 => r["pnl/bar"] = 0
        /\ r["nbars"] >= 0

C18_Witness ==
    /\ \E r \in Range(close_trades) : r["nbars"] = 0 /\ r["pnl"] # 0
    /\ result.op = "notify_trade" /\ result.raised = "none"
    /\ Len(close_trades) = 1 /\ Len(open_trades) = 1

(* The nbars + 1 bars of a series that end at bar cur *)
Window(series, cur, nbars) == SubSeq(series, cur - nbars, cur)

(* The series price_max and price_min are read from: high and low, or      *)
(* close for an instrument without those columns                           *)
MaxSeries(ticker) == IF ticker = "B" THEN Lines(ticker).close ELSE Lines(ticker).high
MinSeries(ticker) == IF ticker = "B" THEN Lines(ticker).close ELSE Lines(ticker).low

(* C19: for a close leg, with price_max and price_min over the window of   *)
(* bar length + 1 bars ending at the current bar, the favorable and the    *)
(* adverse excursion recorded (to 4 decimals) are price_max/avg_cost - 1   *)
(* and price_min/avg_cost - 1 for a long, and -(price_min/avg_cost - 1)    *)
(* and -(price_max/avg_cost - 1) for a short.                              *)
C19_Excursions ==
    \A r \in Range(close_trades) :
        \E cur \in Bars :
            /\ cur - r["nbars"] >= 1
            /\ LET price_max == SeqMax(Window(MaxSeries(r["ticker"]), cur, r["nbars"]))
                   price_min == SeqMin(Window(MinSeries(r["ticker"]), cur, r["nbars"]))
                   up == Minus(Div(price_max, r["avg_cost"]), 1)
                   down == Minus(Div(price_min, r["avg_cost"]), 1)
               IN  /\ IsLong(r) =>
                        /\ r["max_floatin_profit"] = Round4(up)
                        /\ r["max_floating_loss"] = Round4(down)
                   /\ IsShort(r) =>
                        /\ r["max_floatin_profit"] = Round4(Neg(down))
                        /\ r["max_floating_loss"] = Round4(Neg(up))

(* A short of "A" closed after one bar: the window is both bars, high 5    *)
(* and low 1 against an average cost of 2                                  *)
C19_Witness ==
    \E r \in Range(close_trades) :
        /\ IsShort(r) /\ r["ticker"] = "A" /\ r["nbars"] = 1 /\ r["avg_cost"] = 2
        /\ r["max_floatin_profit"] = 5000
        /\ r["max_floating_loss"] = -15000

(* The legs of the reference were processed with non-decreasing dates *)
DatesNonDecreasing(ref) ==
    \A a, b \in Legs :
        (a.ref_id = ref /\ b.ref_id = ref /\ a.trade_id < b.trade_id) =>
            a.exe_date <= b.exe_date

TradeIds == {r.trade_id : r \in Legs}

(* C21: in every state the two lists hold _trade_id records together, and  *)
(* their trade_id values are 0, 1, ..., _trade_id - 1, each once, whatever *)
(* notifications succeeded or failed before.                               *)
C21_LedgerCount ==
    /\ Len(open_trades) + Len(close_trades) = _trade_id
    /\ TradeIds = 0..(_trade_id - 1)
    /\ \A i, j \in 1..Len(open_trades \o close_trades) :
        (open_trades \o close_trades)[i].trade_id =
            (open_trades \o close_trades)[j].trade_id => i = j

(* A leg opening 2, a close of 1 that failed and left no record, then a    *)
(* close of 1 recorded as leaving net size 0                               *)
C21_Witness ==
    /\ result.op = "notify_trade" /\ result.raised = "none"
    /\ _trade_id = 2
    /\ Len(open_trades) = 1 /\ Len(close_trades) = 1
    /\ open_trades[1].ref_id = close_trades[1].ref_id
    /\ open_trades[1].open_qty = 2
    /\ close_trades[1].exe_qty = -1 /\ close_trades[1].open_qty = 0

(* C22: a close leg recorded with a positive average cost has a favorable  *)
(* excursion not below its adverse excursion, long or short.               *)
C22_FavorableNotBelowAdverse ==
    \A r \in Range(close_trades) :
        r["avg_cost"] > 0 =>
            /\ r["max_floatin_profit"] >= r["max_floating_loss"]
            /\ IsLong(r) \/ IsShort(r)

(* A short of the close-only feed "B" closed after one bar: closes 4 and 1 *)
(* against an average cost of 2                                            *)
C22_Witness ==
    \E r \in Range(close_trades) :
        /\ IsShort(r) /\ r["ticker"] = "B" /\ r["nbars"] = 1 /\ r["avg_cost"] > 0
        /\ r["max_floatin_profit"] = 5000
        /\ r["max_floating_loss"] = -10000

====
